---- MODULE Spec2Model ----
(***************************************************************************)
(* DocWrapper (database/wrappers/docWrapper): one wrapper instance bound   *)
(* to one mongoose model and one uniqueQuery.  Every async method is split *)
(* at its awaits: the synchronous part up to the storage request, the      *)
(* storage engine executing the request, and the continuation.             *)
(***************************************************************************)
EXTENDS Integers, Sequences, FiniteSets, TLC

\* ------------------------------------------------------------------ bounds
\* number of wrapper calls (load, resync, createDoc, remove, loadFromObject)
\* a behaviour starts
MaxOps == 2
\* number of async wrapper calls that may be in flight at the same time
MaxCalls == 2
\* number of records matching uniqueQuery the collection may hold
MaxStore == 2
\* number of synchronizers a behaviour of enableSync / disableSync creates
MaxSyncs == 3
\* number of invocations of the commands command that may be in flight at the
\* same time
MaxRuns == 2
\* number of messages a bulk deletion removes
MaxBulk == 2

\* ------------------------------------------------------------ data shapes
\* allFields of the wrapped document (keys<Data>()), in declaration order
allFields == <<"name", "age", "role">>

FieldSet == {allFields[i] : i \in DOMAIN allFields}
\* field values: the wrapper copies values and never inspects them, so two
\* values tell a fetched value from the one it replaces; 0 stands for
\* JavaScript's undefined
Vals == {1, 2}
EmptyObj == [f \in FieldSet |-> 0]
\* the complete documents (Data) storage and callers hold: one per value
Docs == {[f \in FieldSet |-> v] : v \in Vals}
\* the objects handed to loadFromObject: they leave their last field undefined
Objs == {[d EXCEPT ![allFields[Len(allFields)]] = 0] : d \in Docs}
\* the content handed to createDoc
Contents == {[f \in FieldSet |-> 2]}
\* the key sets of the constructor's partial object: none, the first field,
\* every field
CtorKeys == {{}, {allFields[1]}, {allFields[i] : i \in DOMAIN allFields}}

\* an optional array: JavaScript undefined, or an array of field names
Undefined == [def |-> FALSE, v |-> <<>>]
Arr(s) == [def |-> TRUE, v |-> s]

\* Object.keys / a caller's list over the field set S, in declaration order
SubList(S) == SelectSeq(allFields, LAMBDA f : f \in S)
\* field lists the callers pass to load
FieldLists == {<<allFields[2]>>}
\* fields the callers reload one at a time
ReloadFields == {allFields[1]}
\* what the callers pass to resync: nothing, or one field
ResyncFields == {Undefined, Arr(<<allFields[2]>>)}

\* what the callers pass to enableSync: nothing, no field, one field, two
\* fields in either order
SyncFields ==
    {Undefined, Arr(<<>>), Arr(<<allFields[2]>>),
     Arr(<<allFields[2], allFields[3]>>), Arr(<<allFields[3], allFields[2]>>)}

ToSet(s) == {s[i] : i \in DOMAIN s}
\* Array.prototype.includes
Includes(s, x) == \E i \in DOMAIN s : s[i] = x
\* _.difference(a, b): the members of a that are not in b, in a's order
Difference(a, b) == SelectSeq(a, LAMBDA x : ~Includes(b, x))

\* LoadOptions, after extractFieldsToLoad / extractIfReload looked at them:
\*   kind "none"   load()
\*   kind "array"  load([f, ...])
\*   kind "single" load('f')
\*   kind "adv"    load({fields?, reload?})
OptNone == [kind |-> "none", fields |-> Undefined, reload |-> FALSE]
OptArray(l) == [kind |-> "array", fields |-> Arr(l), reload |-> FALSE]
OptSingle(f) == [kind |-> "single", fields |-> Arr(<<f>>), reload |-> FALSE]
OptAdv(fs, r) == [kind |-> "adv", fields |-> fs, reload |-> r]
LoadOptions ==
    {OptNone}
    \cup {OptArray(l) : l \in FieldLists}
    \cup {OptAdv(Arr(<<f>>), TRUE) : f \in ReloadFields}

\* ------------------------------------------------------- pure functions
\* isLoaded that looks the field up in the array and misses the sentinel
isLoaded_ListOnly(lf, field) == lf.def /\ field # "" /\ Includes(lf.v, field)

\* isLoaded(field?): "" is the omitted (falsy) field argument
isLoaded(lf, field) ==
    IF ~lf.def THEN TRUE
    ELSE IF field = "" THEN FALSE
    ELSE Includes(lf.v, field)

\* extractFieldsToLoad(options)
extractFieldsToLoad(options) ==
    IF options.kind = "none" THEN Undefined
    ELSE IF options.kind = "array" THEN options.fields
    ELSE IF options.kind = "single" THEN options.fields
    ELSE IF options.fields.def THEN Arr(<<>> \o options.fields.v)
    ELSE Undefined

\* extractIfReload(options)
extractIfReload(options) ==
    IF options.kind = "none" THEN FALSE
    ELSE IF options.reload THEN TRUE
    ELSE FALSE

\* the place of a field name in the ascending order _.sortBy puts strings in
Rank(f) == CASE f = "age" -> 1 [] f = "name" -> 2 [] f = "role" -> 3

\* a comparison that leaves the list in the order it was given
sortBy_Unsorted(a) == IF a.def THEN a.v ELSE <<>>

\* _.sortBy(a): the members of a in ascending order, [] for undefined
sortBy(a) ==
    IF a.def THEN SortSeq(a.v, LAMBDA x, y : Rank(x) < Rank(y)) ELSE <<>>

\* the collapse test of updateLoadedFields:
\*   !_.difference(this.loadedFields, this.allFields).length
Collapses(list) == Len(Difference(list, allFields)) = 0

\* updateLoadedFields returning the requested fields, loaded or not
updateLoadedFields_ReturnsRequested(lf, fields) ==
    IF ~lf.def THEN [loadedFields |-> lf, newFields |-> <<>>]
    ELSE LET fs == IF fields.def THEN fields.v ELSE allFields
             joined == lf.v \o Difference(fs, lf.v)
         IN [loadedFields |-> IF Collapses(joined) THEN Undefined ELSE Arr(joined),
             newFields |-> fs]

\* updateLoadedFields with the arguments of its _.difference exchanged
updateLoadedFields_Swapped(lf, fields) ==
    IF ~lf.def THEN [loadedFields |-> lf, newFields |-> <<>>]
    ELSE LET fs == IF fields.def THEN fields.v ELSE allFields
             newFields == Difference(lf.v, fs)
             joined == lf.v \o newFields
         IN [loadedFields |-> IF Collapses(joined) THEN Undefined ELSE Arr(joined),
             newFields |-> newFields]

\* updateLoadedFields(fields): the new loadedFields and the returned newFields
updateLoadedFields(lf, fields) ==
    IF ~lf.def THEN [loadedFields |-> lf, newFields |-> <<>>]
    ELSE LET fs == IF fields.def THEN fields.v ELSE allFields
             newFields == Difference(fs, lf.v)
             joined == lf.v \o newFields
         IN [loadedFields |-> IF Collapses(joined) THEN Undefined ELSE Arr(joined),
             newFields |-> newFields]

\* mergeData that never replaces the value of a loaded field
mergeData_KeepsLoaded(d, lf, obj, fieldsToMerge, overwrite) ==
    [f \in FieldSet |->
        IF Includes(fieldsToMerge, f) /\ ~isLoaded(lf, f)
        THEN obj[f] ELSE d[f]]

\* mergeData that keeps a value the snapshot already holds
mergeData_FirstWriterWins(d, lf, obj, fieldsToMerge, overwrite) ==
    [f \in FieldSet |->
        IF Includes(fieldsToMerge, f) /\ d[f] = 0 THEN obj[f] ELSE d[f]]

\* mergeData(obj, fieldsToMerge, overwrite) on the snapshot d with the
\* loaded-field record lf
mergeData(d, lf, obj, fieldsToMerge, overwrite) ==
    [f \in FieldSet |->
        IF Includes(fieldsToMerge, f) /\ (overwrite \/ ~isLoaded(lf, f))
        THEN obj[f] ELSE d[f]]

\* getDoc(fields) as the storage engine answers it: findOne(uniqueQuery,
\* projection) on the collection coll; the projection is fields.join(' ') for
\* an array and absent otherwise, and an empty projection selects every field
NoDoc == [found |-> FALSE, d |-> EmptyObj]
getDoc(coll, fields) ==
    IF Len(coll) = 0 THEN NoDoc
    ELSE [found |-> TRUE,
          d |-> [f \in FieldSet |->
                    IF fields.def /\ Len(fields.v) > 0 /\ ~Includes(fields.v, f)
                    THEN 0 ELSE Head(coll)[f]]]

\* a getter that looks the key up in the array and misses the sentinel
dataGetter_ListOnly(lf, d, key) ==
    IF ~(lf.def /\ Includes(lf.v, key)) THEN [val |-> 0, warn |-> TRUE]
    ELSE [val |-> d[key], warn |-> FALSE]

\* a getter that hands out the snapshot value without a look at isLoaded
dataGetter_NoCheck(lf, d, key) == [val |-> d[key], warn |-> FALSE]

\* the getter of dataGetterGenerator(key): value and whether it warned
dataGetter(lf, d, key) ==
    IF ~isLoaded(lf, key) THEN [val |-> 0, warn |-> TRUE]
    ELSE [val |-> d[key], warn |-> FALSE]

\* loadFromObject recording the keys obj defines, as the constructor does
loadFromObject_KeysOnly(obj) ==
    [data |-> obj, loadedFields |-> Arr(SubList({f \in FieldSet : obj[f] # 0}))]

\* loadFromObject(obj): the new snapshot and loadedFields
loadFromObject(obj) == [data |-> obj, loadedFields |-> Undefined]

\* ------------------------------------------------------------------ state
VARIABLES
    loadedFields,   \* this.loadedFields: Undefined (fully loaded) or an array
    data,           \* this.data.value: the snapshot
    removed,        \* this.removed
    store,          \* the records of the collection that match uniqueQuery
    calls,          \* the async calls, one record per slot
    sync,           \* history: the synchronous call that returned last
    nops,           \* number of wrapper calls started so far
    supplied,       \* history: fields whose snapshot value was ever supplied
    prev,           \* history: the load or resync that completed last
    synchronizer,   \* this.synchronizer: 0 (absent) or an index into syncs
    syncs,          \* every WrapperSynchronizer created so far
    syncRet,        \* history: the enableSync / disableSync that returned last
    obs,            \* history: what the subscribers were handed in the wrapper's last step
    hist,           \* whether subscribers are attached and overlapping calls remembered
    commandSettings,    \* the guild's stored settings of each command name
    runs,               \* the invocations of the commands command
    megalogDoc,         \* the guild's megalog document, if there is one
    handler             \* the megalog handler that runs, and what it did

vars == <<loadedFields, data, removed, store, calls, sync, nops, supplied, prev,
          synchronizer, syncs, syncRet, obs, hist,
          commandSettings, runs, megalogDoc, handler>>
\* the part of the state enableSync and disableSync work on
syncVars == <<synchronizer, syncs, syncRet>>
\* the part of the state the other methods and the storage engine work on
\* the bot around the wrapper: the commands command and the megalogger
botVars == <<commandSettings, runs, megalogDoc, handler>>
docVars == <<loadedFields, data, removed, store, calls, sync, nops, supplied, prev,
            obs, hist, botVars>>

\* ------------------------------------------------- the commands command
\* the names a user may type after enable / disable; Bot.commands holds the
\* registered ones, and of those only some are togglable
CmdNames == {"animal", "commands", "nope"}
Registered == {"animal", "commands"}
togglable == [n \in Registered |-> n = "animal"]
\* argsArray[argIndex]: nothing, or a name in some spelling
Args == {"", "animal", "Animal", "commands", "nope"}
\* String.prototype.toLowerCase on the spellings of Args
toLowerCase(a) == IF a = "Animal" THEN "animal" ELSE a

\* the settings object of one command: undefined, or an object whose _enabled
\* is true, false or not set
NoSettings == [def |-> FALSE, _enabled |-> "undefined"]
Settings(e) == [def |-> TRUE, _enabled |-> e]
\* what the guild's commands document holds for a command: nothing, or what
\* an earlier enable / disable stored
StoredSettings == {NoSettings, Settings("true"), Settings("false")}

Runs == 1..MaxRuns
NoRun == [pc |-> "idle", op |-> "", cmd |-> "", commandSettings |-> NoSettings,
          ret |-> "", reply |-> ""]

\* ---------------------------------------------------- the megalogger
\* the ids of the guild's text channels; "log" is the one log settings name
GuildChannels == {"c1", "c2", "log"}
\* where a message can be: a guild text channel or a DM channel
MsgChannels == GuildChannels \cup {"dm"}
\* the settings of the megalog document the handlers below consult: each is
\* a channel id, or "" when it is not set
LogTypes == {"channelCreate", "channelDelete", "channelUpdate", "messageDelete",
             "attachmentCache", "messageEdit", "reactionAdd", "reactionRemove"}
\* a megalog document: ignoreChannels ig, the settings in U not set and every
\* other setting naming the channel id v; found tells it from the undefined
\* findMegalogDoc resolves with when the guild has none
MegalogDoc(ig, U, v) ==
    [f \in LogTypes \cup {"ignoreChannels", "found"} |->
        IF f = "found" THEN TRUE
        ELSE IF f = "ignoreChannels" THEN ig ELSE IF f \in U THEN "" ELSE v]
NoMegalogDoc == [found |-> FALSE]
\* the documents a guild may have: ignoreChannels missing, empty or naming a
\* channel; no setting, one setting or every setting unset; the log channel
\* in the guild or gone from it
MegalogDocs ==
    {MegalogDoc(ig, U, v) :
        ig \in {[def |-> FALSE, v |-> <<>>], [def |-> TRUE, v |-> <<>>],
                [def |-> TRUE, v |-> <<"c1">>]},
        U \in {{}, LogTypes} \cup {{t} : t \in LogTypes},
        v \in {"log", "gone"}}

\* an event: the handler fn it is given to, the channel ch it happened in,
\* the handler's boolean argument or circumstance flag (created, reacted,
\* the edited message is the bot's own, the cache message is too large to
\* send), what changed, and which of the messages have attachments
Event(fn, ch, flag, changed, atts) ==
    [fn |-> fn, ch |-> ch, flag |-> flag, changed |-> changed, atts |-> atts]
Events ==
    {Event("logChannelToggle", ch, b, {}, <<>>) : ch \in GuildChannels, b \in BOOLEAN}
    \cup {Event("logChannelUpdate", ch, FALSE, c, <<>>) :
            ch \in GuildChannels, c \in {{}, {"name"}, {"name", "topic", "perm"}}}
    \cup {Event("logMessageDelete", ch, FALSE, {}, <<a>>) :
            ch \in MsgChannels, a \in BOOLEAN}
    \cup {Event("logMessageBulkDelete", ch, FALSE, {}, as) :
            ch \in MsgChannels, as \in [1..MaxBulk -> BOOLEAN]}
    \cup {Event("cacheAttachment", ch, b, {}, <<a>>) :
            ch \in MsgChannels, b \in BOOLEAN, a \in BOOLEAN}
    \cup {Event("logMessageEdit", ch, b, c, <<>>) :
            ch \in MsgChannels, b \in BOOLEAN, c \in {{}, {"content"}}}
    \cup {Event("logReactionToggle", ch, b, {}, <<>>) : ch \in MsgChannels, b \in BOOLEAN}
    \cup {Event("logReactionRemoveAll", ch, FALSE, {}, <<>>) : ch \in MsgChannels}

\* no handler runs and none has run
NoHandler == [pc |-> "idle", ev |-> Event("", "", FALSE, {}, <<>>), i |-> 0,
              humanLog |-> <<>>, cached |-> <<>>, sent |-> <<>>, stats |-> <<>>,
              threw |-> FALSE]

\* the bot does nothing while the wrapper is exercised
BotIdle ==
    /\ commandSettings = [n \in CmdNames |-> NoSettings]
    /\ runs = [i \in Runs |-> NoRun]
    /\ megalogDoc = NoMegalogDoc
    /\ handler = NoHandler

Slots == 1..MaxCalls

NoRet == [kind |-> "pending", v |-> <<>>]
NoPrev == [op |-> "none", fields |-> Undefined, reload |-> FALSE,
           loadFields |-> Undefined, found |-> FALSE, ret |-> NoRet, reads |-> 0,
           overlap |-> FALSE, preLoaded |-> Undefined, d |-> EmptyObj]
NoSync == [op |-> "none", obj |-> EmptyObj, preLoaded |-> Undefined,
           preData |-> EmptyObj]
Idle == [op |-> "idle", pc |-> "idle", fields |-> Undefined, reload |-> FALSE,
         loadFields |-> Undefined, doc |-> NoDoc, content |-> EmptyObj,
         overwrite |-> FALSE, ret |-> NoRet, reads |-> 0, deletes |-> 0,
         inserts |-> 0, preLoaded |-> Undefined,
         prev |-> NoPrev, overlap |-> FALSE, last |-> NoPrev]

\* no enableSync / disableSync has returned yet
NoSyncRet == [op |-> "none", fields |-> Undefined, pre |-> 0, ret |-> 0,
              created |-> FALSE, closed |-> 0]

\* the field the field-level subscriber watches: subToField(SubField)
SubField == allFields[1]

\* this.data.next(v): the observable takes v as its value and hands it to
\* every plain subscriber, once, before next returns
next(v) == <<v>>

\* subToField whose pipe lets every snapshot that differs anywhere through
subToField_AnyChange(field, before, curr) == before # curr

\* the pipe of subToField(field) when the snapshot curr follows the snapshot
\* before: distinctUntilChanged lets curr through to the subscriber unless
\* _.isEqual(prev[field], curr[field]); the snapshot it let through last has
\* the field value of the snapshot before curr
subToField(field, before, curr) == before[field] # curr[field]

\* cloneData that hands out the snapshot object itself
cloneData_Alias(d) == [fresh |-> FALSE, v |-> d]

\* cloneData(): _.cloneDeep(this.data.value), a new object with the content
\* of the snapshot
cloneData(d) == [fresh |-> TRUE, v |-> d]

\* nothing was handed to a subscriber
NoObs == [plain |-> <<>>, field |-> FALSE, intact |-> TRUE, seen |-> Undefined]
\* mergeData that skips the set when the merge wrote nothing new
MergeEmit_SkipsUnchanged(before, curr, lf) ==
    IF curr = before THEN NoObs
    ELSE [plain |-> next(curr), field |-> subToField(SubField, before, curr),
          intact |-> TRUE, seen |-> lf]
\* mergeData's set (lines 255-261): the merge wrote into tempData and passed
\* it to next; the snapshot object the subscribers held before is intact if
\* tempData is another object or nothing was written; lf is this.loadedFields
\* while next runs, what a subscriber that calls isLoaded then is answered from
MergeEmit(before, curr, lf) ==
    [plain |-> next(curr), field |-> subToField(SubField, before, curr),
     intact |-> cloneData(before).fresh \/ curr = before, seen |-> lf]
\* loadFromObject's set (line 239): obj itself is passed to next; lf is
\* this.loadedFields while next runs, before the assignment of line 240
SetEmit(before, curr, lf) ==
    [plain |-> next(curr), field |-> subToField(SubField, before, curr),
     intact |-> TRUE, seen |-> lf]
\* what reaches the subscribers of the emission e: nothing when none is
\* attached
Observed(e) == IF hist THEN e ELSE NoObs

InFlight(k) == calls[k].pc \notin {"idle", "done"}
\* a call starts in the first slot that holds no call in flight
Free(c) == ~InFlight(c) /\ \A k \in Slots : k < c => InFlight(k)
\* a new call in slot c: it overlaps whatever is in flight; the record of a
\* call that completed earlier is dropped
Begin(c, rec) ==
    [k \in Slots |->
        IF k = c
        THEN [rec EXCEPT !.overlap = \E j \in Slots \ {c} : InFlight(j),
                         !.preLoaded = loadedFields,
                         !.prev = prev]
        ELSE IF InFlight(k) THEN [calls[k] EXCEPT !.overlap = TRUE]
        ELSE Idle]
\* the continuation of call c runs and leaves it as rec
Continue(c, rec) ==
    [k \in Slots |->
        IF k = c THEN rec
        ELSE IF InFlight(k) THEN [calls[k] EXCEPT !.overlap = TRUE]
        ELSE Idle]
\* what a completed call leaves in prev; what was loaded when it started and
\* the document it fetched are kept for a call that overlapped another one
Summary(rec) ==
    [op |-> rec.op, fields |-> rec.fields, reload |-> rec.reload,
     loadFields |-> rec.loadFields, found |-> rec.doc.found, ret |-> rec.ret,
     reads |-> rec.reads, overlap |-> rec.overlap,
     preLoaded |-> IF hist /\ rec.overlap THEN rec.preLoaded ELSE Undefined,
     d |-> IF hist /\ rec.overlap THEN rec.doc.d ELSE EmptyObj]
\* what a completing call keeps of the call that completed before it: its
\* summary, when both ran while another call was in flight (overlap says
\* whether the completing one did)
Last(overlap) == IF hist /\ overlap /\ prev.overlap THEN prev ELSE NoPrev

\* the snapshot DataWrapper's constructor (super(obj, allFields)) starts
\* with: the partial object obj, here the one with keys K
initialData(K) == [f \in FieldSet |-> IF f \in K THEN 1 ELSE 0]

\* constructor(model, uniqueQuery, obj, allFields): loadedFields is
\* Object.keys(obj), the snapshot is obj; the collection holds no record or
\* one; h tells whether subscribers are attached
Constructed(h) ==
    \E K \in CtorKeys, coll \in {<<>>} \cup {<<d>> : d \in Docs} :
        /\ loadedFields = Arr(SubList(K))
        /\ data = initialData(K)
        /\ removed = FALSE
        /\ store = coll
        /\ calls = [k \in Slots |-> Idle]
        /\ sync = NoSync
        /\ nops = 0
        /\ supplied = K
        /\ prev = NoPrev
        /\ synchronizer = 0
        /\ syncs = <<>>
        /\ syncRet = NoSyncRet
        /\ obs = NoObs
        /\ hist = h
        /\ BotIdle

Init == Constructed(FALSE)
\* the same wrapper with subscribers attached
InitHist == Constructed(TRUE)

\* ---------------------------------------------------------------- load
\* what the caller gets when load returns result (undefined or an array):
\* load returns it as it is, resync returns `result ? this : undefined`
\* (line 274; every array, the empty one too, is truthy)
Result(op, result) ==
    IF ~result.def THEN [kind |-> "undefined", v |-> <<>>]
    ELSE IF op = "resync" THEN [kind |-> "this", v |-> <<>>]
    ELSE [kind |-> "list", v |-> result.v]

\* load(options) up to its await (lines 388-394); fs and reload are what
\* extractFieldsToLoad and extractIfReload made of the options
loadSync(c, op, fs, reload) ==
    LET upd == updateLoadedFields(loadedFields, fs)
        fast == Len(upd.newFields) = 0 /\ ~reload
        loadFields == IF reload THEN fs ELSE Arr(upd.newFields)
        rec == [Idle EXCEPT !.op = op, !.fields = fs, !.reload = reload,
                            !.loadFields = IF fast THEN Arr(<<>>) ELSE loadFields]
        begun == Begin(c, IF fast
                          THEN [rec EXCEPT !.pc = "done", !.ret = Result(op, Arr(<<>>)),
                                           !.last = Last(\E j \in Slots \ {c} : InFlight(j))]
                          ELSE [rec EXCEPT !.pc = "fetch", !.reads = 1])
    IN /\ Free(c)
       /\ nops < MaxOps
       /\ nops' = nops + 1
       /\ loadedFields' = upd.loadedFields
       /\ calls' = begun
       /\ prev' = IF fast THEN Summary(begun[c]) ELSE NoPrev
       /\ sync' = NoSync
       /\ obs' = NoObs
       /\ UNCHANGED <<botVars, hist, syncVars, data, removed, store, supplied>>

load(c, options) ==
    loadSync(c, "load", extractFieldsToLoad(options), extractIfReload(options))

\* resync(fields?): load({fields: fields || this.loadedFields, reload: true})
resync(c, fields) ==
    LET options == OptAdv(IF fields.def THEN fields ELSE loadedFields, TRUE)
    IN loadSync(c, "resync", extractFieldsToLoad(options), extractIfReload(options))

\* the storage engine executes the findOne of call c: the fetch of load
\* (line 394) or the zero-field probe of docExists (line 205)
findOne(c) ==
    /\ calls[c].pc \in {"fetch", "probe"}
    /\ calls' = [calls EXCEPT ![c].doc = getDoc(store, IF calls[c].pc = "probe"
                                                       THEN Arr(<<>>)
                                                       ELSE calls[c].loadFields),
                              ![c].pc = IF calls[c].pc = "probe" THEN "probed" ELSE "fetched"]
    /\ UNCHANGED <<botVars, hist, syncVars, sync, loadedFields, data, removed, store, nops, supplied, prev, obs>>

\* load after its await (lines 395-398), and resync's result (line 274)
loadResume(c) ==
    LET rec == calls[c]
        merged == IF rec.loadFields.def THEN rec.loadFields.v ELSE allFields
        ret == Result(rec.op, IF rec.doc.found THEN rec.loadFields ELSE Undefined)
        done == Continue(c, [rec EXCEPT !.pc = "done", !.ret = ret, !.last = Last(rec.overlap)])
    IN /\ rec.pc = "fetched"
       /\ data' = IF rec.doc.found
                  THEN mergeData(data, loadedFields, rec.doc.d, merged, TRUE)
                  ELSE data
       /\ supplied' = IF rec.doc.found THEN supplied \cup ToSet(merged) ELSE supplied
       /\ calls' = done
       /\ prev' = Summary(done[c])
       /\ sync' = NoSync
       /\ obs' = IF rec.doc.found THEN Observed(MergeEmit(data, data', loadedFields)) ELSE NoObs
       /\ UNCHANGED <<botVars, hist, syncVars, loadedFields, removed, store, nops>>

\* ------------------------------------------------------ loadFromObject
loadFromObjectCall(obj) ==
    /\ nops < MaxOps
    /\ nops' = nops + 1
    /\ data' = loadFromObject(obj).data
    /\ loadedFields' = loadFromObject(obj).loadedFields
    /\ supplied' = FieldSet
    /\ calls' = Continue(0, Idle)
    /\ sync' = [op |-> "loadFromObject", obj |-> obj, preLoaded |-> loadedFields,
                preData |-> data]
    /\ prev' = NoPrev
    /\ obs' = Observed(SetEmit(data, data', loadedFields))
    /\ UNCHANGED <<botVars, hist, syncVars, removed, store>>

\* ------------------------------------------------------------ createDoc
\* createDoc(content, overwrite) up to the await of docExists (line 221)
createDoc(c, content, overwrite) ==
    /\ Free(c)
    /\ nops < MaxOps
    /\ nops' = nops + 1
    /\ calls' = Begin(c, [Idle EXCEPT !.op = "createDoc", !.pc = "probe",
                                      !.content = content, !.overwrite = overwrite,
                                      !.reads = 1])
    /\ prev' = NoPrev
    /\ sync' = NoSync
    /\ obs' = NoObs
    /\ UNCHANGED <<botVars, hist, syncVars, loadedFields, data, removed, store, supplied>>

\* createDoc that overwrites an existing record whatever overwrite says
createAfterExists_IgnoresOverwrite(c) ==
    LET rec == calls[c]
        oldDocExists == rec.doc.found
        lfo == loadFromObject(rec.content)
    IN /\ rec.pc = "probed"
       /\ calls' = Continue(c,
            IF oldDocExists THEN [rec EXCEPT !.pc = "delete", !.deletes = 1]
            ELSE [rec EXCEPT !.pc = "save", !.inserts = 1])
       /\ data' = IF oldDocExists THEN data ELSE lfo.data
       /\ loadedFields' = IF oldDocExists THEN loadedFields ELSE lfo.loadedFields
       /\ supplied' = IF oldDocExists THEN supplied ELSE FieldSet
       /\ prev' = NoPrev
       /\ sync' = NoSync
       /\ obs' = IF oldDocExists THEN NoObs ELSE Observed(SetEmit(data, data', loadedFields))
       /\ UNCHANGED <<botVars, hist, syncVars, removed, store, nops>>

\* createDoc that inserts over an existing record without deleting it
createAfterExists_NoDelete(c) ==
    LET rec == calls[c]
        refuse == ~rec.overwrite /\ rec.doc.found
        lfo == loadFromObject(rec.content)
    IN /\ rec.pc = "probed"
       /\ calls' = Continue(c,
            IF refuse THEN [rec EXCEPT !.pc = "done", !.ret = [kind |-> "undefined", v |-> <<>>]]
            ELSE [rec EXCEPT !.pc = "save", !.inserts = 1])
       /\ data' = IF refuse THEN data ELSE lfo.data
       /\ loadedFields' = IF refuse THEN loadedFields ELSE lfo.loadedFields
       /\ supplied' = IF refuse THEN supplied ELSE FieldSet
       /\ prev' = NoPrev
       /\ sync' = NoSync
       /\ obs' = IF refuse THEN NoObs ELSE Observed(SetEmit(data, data', loadedFields))
       /\ UNCHANGED <<botVars, hist, syncVars, removed, store, nops>>

\* createDoc after docExists resolved (lines 221-226): return undefined, or
\* issue the delete and wait for it, or loadFromObject(content) and issue save
createAfterExists(c) ==
    LET rec == calls[c]
        oldDocExists == rec.doc.found
        refuse == ~rec.overwrite /\ oldDocExists
        lfo == loadFromObject(rec.content)
    IN /\ rec.pc = "probed"
       /\ calls' = Continue(c,
            IF refuse THEN [rec EXCEPT !.pc = "done", !.ret = [kind |-> "undefined", v |-> <<>>]]
            ELSE IF oldDocExists THEN [rec EXCEPT !.pc = "delete", !.deletes = 1]
            ELSE [rec EXCEPT !.pc = "save", !.inserts = 1])
       /\ data' = IF refuse \/ oldDocExists THEN data ELSE lfo.data
       /\ loadedFields' = IF refuse \/ oldDocExists THEN loadedFields ELSE lfo.loadedFields
       /\ supplied' = IF refuse \/ oldDocExists THEN supplied ELSE FieldSet
       /\ prev' = NoPrev
       /\ sync' = NoSync
       /\ obs' = IF refuse \/ oldDocExists THEN NoObs ELSE Observed(SetEmit(data, data', loadedFields))
       /\ UNCHANGED <<botVars, hist, syncVars, removed, store, nops>>

\* the storage engine executes the deleteOne(uniqueQuery) of call c
deleteOne(c) ==
    /\ calls[c].pc = "delete"
    /\ store' = IF Len(store) = 0 THEN store ELSE Tail(store)
    /\ calls' = [calls EXCEPT ![c].pc = "deleted"]
    /\ UNCHANGED <<botVars, hist, syncVars, sync, loadedFields, data, removed, nops, supplied, prev, obs>>

\* createDoc after the delete resolved (lines 224-226)
createAfterDelete(c) ==
    LET rec == calls[c]
        lfo == loadFromObject(rec.content)
    IN /\ rec.op = "createDoc"
       /\ rec.pc = "deleted"
       /\ calls' = Continue(c, [rec EXCEPT !.pc = "save", !.inserts = 1])
       /\ data' = lfo.data
       /\ loadedFields' = lfo.loadedFields
       /\ supplied' = FieldSet
       /\ prev' = NoPrev
       /\ sync' = NoSync
       /\ obs' = Observed(SetEmit(data, data', loadedFields))
       /\ UNCHANGED <<botVars, hist, syncVars, removed, store, nops>>

\* the storage engine executes the insert of doc.save() of call c
save(c) ==
    /\ calls[c].pc = "save"
    /\ Len(store) < MaxStore
    /\ store' = Append(store, calls[c].content)
    /\ calls' = [calls EXCEPT ![c].pc = "saved"]
    /\ UNCHANGED <<botVars, hist, syncVars, sync, loadedFields, data, removed, nops, supplied, prev, obs>>

\* a createDoc that marks the wrapper as not removed once the record is back
createDone_ClearsRemoved(c) ==
    /\ calls[c].pc = "saved"
    /\ calls' = Continue(c, [calls[c] EXCEPT !.pc = "done",
                                             !.ret = [kind |-> "doc", v |-> <<>>]])
    /\ removed' = FALSE
    /\ prev' = NoPrev
    /\ sync' = NoSync
    /\ obs' = NoObs
    /\ UNCHANGED <<botVars, hist, syncVars, loadedFields, data, store, nops, supplied>>

\* the promise createDoc returned (doc.save()) resolves with the document
createDone(c) ==
    /\ calls[c].pc = "saved"
    /\ calls' = Continue(c, [calls[c] EXCEPT !.pc = "done",
                                             !.ret = [kind |-> "doc", v |-> <<>>]])
    /\ prev' = NoPrev
    /\ sync' = NoSync
    /\ obs' = NoObs
    /\ UNCHANGED <<botVars, hist, syncVars, loadedFields, data, removed, store, nops, supplied>>

\* --------------------------------------------------------------- remove
\* remove that issues the delete and leaves the flag for later
remove_FlagLater(c) ==
    /\ Free(c)
    /\ nops < MaxOps
    /\ nops' = nops + 1
    /\ calls' = Begin(c, [Idle EXCEPT !.op = "remove", !.pc = "delete", !.deletes = 1])
    /\ prev' = NoPrev
    /\ sync' = NoSync
    /\ obs' = NoObs
    /\ UNCHANGED <<botVars, hist, syncVars, removed, loadedFields, data, store, supplied>>

\* remove that also forgets what was loaded
remove_ForgetsLoaded(c) ==
    /\ Free(c)
    /\ nops < MaxOps
    /\ nops' = nops + 1
    /\ removed' = TRUE
    /\ loadedFields' = Arr(<<>>)
    /\ calls' = Begin(c, [Idle EXCEPT !.op = "remove", !.pc = "delete", !.deletes = 1])
    /\ prev' = NoPrev
    /\ sync' = NoSync
    /\ obs' = NoObs
    /\ UNCHANGED <<botVars, hist, syncVars, data, store, supplied>>

\* remove() (lines 407-410): the flag, then the delete request
remove(c) ==
    /\ Free(c)
    /\ nops < MaxOps
    /\ nops' = nops + 1
    /\ removed' = TRUE
    /\ calls' = Begin(c, [Idle EXCEPT !.op = "remove", !.pc = "delete", !.deletes = 1])
    /\ prev' = NoPrev
    /\ sync' = NoSync
    /\ obs' = NoObs
    /\ UNCHANGED <<botVars, hist, syncVars, loadedFields, data, store, supplied>>

\* the promise remove returned resolves with the delete's result
removeDone(c) ==
    /\ calls[c].op = "remove"
    /\ calls[c].pc = "deleted"
    /\ calls' = Continue(c, [calls[c] EXCEPT !.pc = "done",
                                             !.ret = [kind |-> "deleted", v |-> <<>>]])
    /\ prev' = NoPrev
    /\ sync' = NoSync
    /\ obs' = NoObs
    /\ UNCHANGED <<botVars, hist, syncVars, loadedFields, data, removed, store, nops, supplied>>

\* ------------------------------------------------------ storage failure
\* a wrapper that catches the rejection and ends the call as if nothing
\* had been found
reject_Swallowed(c) ==
    LET done == Continue(c, [calls[c] EXCEPT !.pc = "done",
                                             !.ret = [kind |-> "undefined", v |-> <<>>]])
    IN /\ calls[c].pc \in {"fetch", "probe", "delete", "save"}
       /\ calls' = done
       /\ prev' = IF calls[c].op \in {"load", "resync"} THEN Summary(done[c]) ELSE NoPrev
       /\ sync' = NoSync
       /\ obs' = NoObs
       /\ UNCHANGED <<botVars, hist, syncVars, loadedFields, data, removed, store, nops, supplied>>

\* the storage engine fails the request of call c (driver or network
\* error) and leaves the collection as it is: the promise of findOne,
\* deleteOne or save rejects, the await in load, docExists or createDoc throws
\* and, with no try/catch in the wrapper, the promise the call returned
\* rejects; remove and createDoc hand the rejected promise of deleteOne and
\* save to the caller as it is.  The rejection reads and writes nothing of
\* the wrapper, so it is delivered in the step the request fails in
reject(c) ==
    LET done == Continue(c, [calls[c] EXCEPT !.pc = "done",
                                             !.ret = [kind |-> "throw", v |-> <<>>]])
    IN /\ calls[c].pc \in {"fetch", "probe", "delete", "save"}
       /\ calls' = done
       /\ prev' = IF calls[c].op \in {"load", "resync"} THEN Summary(done[c]) ELSE NoPrev
       /\ sync' = NoSync
       /\ obs' = NoObs
       /\ UNCHANGED <<botVars, hist, syncVars, loadedFields, data, removed, store, nops, supplied>>

\* ------------------------------------------------------- synchronizer
\* new WrapperSynchronizer(wrapper, fields): it keeps the fields it was given
\* as syncedFields; given none it keeps none or every field of the wrapper
WrapperSynchronizer(fields) ==
    {[fields |-> fields, syncedFields |-> sf, closed |-> 0] :
        sf \in IF fields.def THEN {fields} ELSE {Undefined, Arr(allFields)}}

\* WrapperSynchronizer.close(): the synchronizer counts how often it was closed
close(s) == [s EXCEPT !.closed = @ + 1]

\* this.synchronizer?.syncedFields
syncedFields == IF synchronizer = 0 THEN Undefined ELSE syncs[synchronizer].syncedFields

\* enableSync(fields?) (lines 286-290)
enableSync(fields) ==
    /\ IF sortBy(syncedFields) # sortBy(fields)
       THEN /\ Len(syncs) < MaxSyncs
            /\ \E s \in WrapperSynchronizer(fields) : syncs' = Append(syncs, s)
            /\ synchronizer' = Len(syncs) + 1
            /\ syncRet' = [op |-> "enableSync", fields |-> fields, pre |-> synchronizer,
                           ret |-> Len(syncs) + 1, created |-> TRUE, closed |-> 0]
       ELSE /\ syncRet' = [op |-> "enableSync", fields |-> fields, pre |-> synchronizer,
                           ret |-> synchronizer, created |-> FALSE, closed |-> 0]
            /\ UNCHANGED <<synchronizer, syncs>>
    /\ UNCHANGED docVars

\* disableSync() (lines 298-302); it awaits nothing, so it runs in one step
disableSync ==
    /\ IF synchronizer = 0
       THEN UNCHANGED <<synchronizer, syncs>>
       ELSE /\ syncs' = [syncs EXCEPT ![synchronizer] = close(@)]
            /\ synchronizer' = 0
    /\ syncRet' = [op |-> "disableSync", fields |-> Undefined, pre |-> synchronizer,
                   ret |-> 0, created |-> FALSE,
                   closed |-> IF synchronizer = 0 THEN 0 ELSE 1]
    /\ UNCHANGED docVars

\* ---------------------------------------------------------- environment
\* a storage request of some call is on its way to the storage engine
Pending == \E c \in Slots : calls[c].pc \in {"fetch", "probe", "delete", "save"}

\* another writer changes, creates or deletes the record out of band; the
\* wrapper sees the collection only through its requests, so the change is
\* taken when a request is on its way
extWrite(d) ==
    /\ Pending
    /\ store' = IF Len(store) = 0 THEN <<d>> ELSE <<d>> \o Tail(store)
    /\ UNCHANGED <<botVars, hist, syncVars, sync, loadedFields, data, removed, calls, nops, supplied, prev, obs>>

extDelete ==
    /\ Pending
    /\ Len(store) > 0
    /\ store' = Tail(store)
    /\ UNCHANGED <<botVars, hist, syncVars, sync, loadedFields, data, removed, calls, nops, supplied, prev, obs>>

Next ==
    \/ \E c \in Slots, o \in LoadOptions : load(c, o)
    \/ \E c \in Slots, fs \in ResyncFields : resync(c, fs)
    \/ \E c \in Slots : findOne(c)
    \/ \E c \in Slots : loadResume(c)
    \/ \E obj \in Objs : loadFromObjectCall(obj)
    \/ \E c \in Slots, content \in Contents, overwrite \in BOOLEAN : createDoc(c, content, overwrite)
    \/ \E c \in Slots : createAfterExists(c)
    \/ \E c \in Slots : deleteOne(c)
    \/ \E c \in Slots : createAfterDelete(c)
    \/ \E c \in Slots : save(c)
    \/ \E c \in Slots : createDone(c)
    \/ \E c \in Slots : remove(c)
    \/ \E c \in Slots : removeDone(c)
    \/ \E d \in Docs : extWrite(d)
    \/ extDelete

Spec == Init /\ [][Next]_vars

\* the wrapper as the only writer of its record, on storage that can fail
NextFail ==
    \/ \E c \in Slots, o \in LoadOptions : load(c, o)
    \/ \E c \in Slots, fs \in ResyncFields : resync(c, fs)
    \/ \E c \in Slots : findOne(c)
    \/ \E c \in Slots : loadResume(c)
    \/ \E obj \in Objs : loadFromObjectCall(obj)
    \/ \E c \in Slots, content \in Contents, overwrite \in BOOLEAN : createDoc(c, content, overwrite)
    \/ \E c \in Slots : createAfterExists(c)
    \/ \E c \in Slots : deleteOne(c)
    \/ \E c \in Slots : createAfterDelete(c)
    \/ \E c \in Slots : save(c)
    \/ \E c \in Slots : createDone(c)
    \/ \E c \in Slots : remove(c)
    \/ \E c \in Slots : removeDone(c)
    \/ \E c \in Slots : reject(c)

SpecFail == InitHist /\ [][NextFail]_vars

\* load calls alone, watched, next to the out-of-band writer
NextHist ==
    \/ \E c \in Slots, o \in LoadOptions : load(c, o)
    \/ \E c \in Slots : findOne(c)
    \/ \E c \in Slots : loadResume(c)
    \/ \E d \in Docs : extWrite(d)
    \/ extDelete

SpecHist == InitHist /\ [][NextHist]_vars

\* the calls that attach and detach the synchronizer of one wrapper
NextSync ==
    \/ \E fields \in SyncFields : enableSync(fields)
    \/ disableSync

SpecSync == Init /\ [][NextSync]_vars

\* remove next to the calls that attach and detach the synchronizer
NextRemove ==
    \/ \E fields \in SyncFields : enableSync(fields)
    \/ disableSync
    \/ \E c \in Slots : remove(c)
    \/ \E c \in Slots : deleteOne(c)
    \/ \E c \in Slots : removeDone(c)

SpecRemove == Init /\ [][NextRemove]_vars

\* ------------------------------------------------------- untyped callers
\* a caller that TypeScript does not hold to Partial<Data> and Keys<Data>
\* (a cast, or plain JavaScript): "extra" is a name outside allFields
Names == allFields \o <<"extra">>
\* Object.keys of a constructor object with the keys K, foreign keys included
ObjectKeys(K) == SelectSeq(Names, LAMBDA f : f \in K)
\* the key sets of the untyped constructor's object
CtorKeysUntyped == {{}, {allFields[1]}, {"extra"}, {allFields[1], "extra"}}
\* the options an untyped caller passes to load
LoadOptionsUntyped ==
    {OptNone, OptSingle("extra"), OptArray(<<allFields[2], "extra">>),
     OptAdv(Arr(<<"extra">>), TRUE)}

\* constructor as in Init, with an untyped object: loadedFields is
\* Object.keys(obj) with the foreign keys, the snapshot holds the values of
\* the fields of allFields
InitUntyped ==
    \E K \in CtorKeysUntyped, coll \in {<<>>} \cup {<<d>> : d \in Docs} :
        /\ loadedFields = Arr(ObjectKeys(K))
        /\ data = initialData(K)
        /\ removed = FALSE
        /\ store = coll
        /\ calls = [k \in Slots |-> Idle]
        /\ sync = NoSync
        /\ nops = 0
        /\ supplied = K
        /\ prev = NoPrev
        /\ synchronizer = 0
        /\ syncs = <<>>
        /\ syncRet = NoSyncRet
        /\ obs = NoObs
        /\ hist = FALSE
        /\ BotIdle

NextUntyped ==
    \/ \E c \in Slots, o \in LoadOptionsUntyped : load(c, o)
    \/ \E c \in Slots, fs \in ResyncFields : resync(c, fs)
    \/ \E c \in Slots : findOne(c)
    \/ \E c \in Slots : loadResume(c)

SpecUntyped == InitUntyped /\ [][NextUntyped]_vars

\* ------------------------------------------- the earlier DocWrapper
\* the wrapper of part_001: loadedFields is always an array, the snapshot
\* starts as {} and every field gets a property with a getter and a setter
\* the preloadedFields its constructor is given
PreloadedFields == {<<>>, <<allFields[1]>>, allFields}

\* what a property read hands back: undefined, a field's value, or an object
RetUndefined == [tag |-> "undefined", scalar |-> 0, object |-> EmptyObj]
RetScalar(v) == [tag |-> "scalar", scalar |-> v, object |-> EmptyObj]
RetObject(o) == [tag |-> "object", scalar |-> 0, object |-> o]

\* the getter setProperty(key) installs (lines 156-162)
setProperty(lf, d, key) ==
    IF ~isLoaded(lf, key) THEN [warn |-> TRUE, ret |-> RetUndefined]
    ELSE [warn |-> FALSE, ret |-> RetObject(d)]

\* the setter setCustomProperty installs (lines 176-178): it throws and
\* writes nothing
setCustomProperty(d, key, v) == [threw |-> TRUE, data |-> d]

InitOld ==
    \E pre \in PreloadedFields :
        /\ loadedFields = Arr(pre)
        /\ data = EmptyObj
        /\ removed = FALSE
        /\ store = <<>>
        /\ calls = [k \in Slots |-> Idle]
        /\ sync = NoSync
        /\ nops = 0
        /\ supplied = {}
        /\ prev = NoPrev
        /\ synchronizer = 0
        /\ syncs = <<>>
        /\ syncRet = NoSyncRet
        /\ obs = NoObs
        /\ hist = FALSE
        /\ BotIdle

\* loadFromObject(obj, overwrite) of part_001 (lines 119-122): every field
\* is marked loaded, then obj is merged
loadFromObjectOld(obj, overwrite) ==
    /\ loadedFields' = Arr(allFields)
    /\ data' = mergeData(data, Arr(allFields), obj, allFields, overwrite)
    /\ sync' = [op |-> "loadFromObjectOld", obj |-> obj, preLoaded |-> loadedFields,
                preData |-> data]
    /\ UNCHANGED <<botVars, hist, syncVars, removed, store, calls, nops, supplied, prev, obs>>

\* a read of wrapper[key]
getProperty(key) ==
    /\ sync' = [op |-> "get", key |-> key, preData |-> data,
                got |-> setProperty(loadedFields, data, key)]
    /\ UNCHANGED <<botVars, hist, syncVars, loadedFields, data, removed, store, calls, nops,
                   supplied, prev, obs>>

\* an assignment wrapper[key] = v
assignProperty(key, v) ==
    /\ data' = setCustomProperty(data, key, v).data
    /\ sync' = [op |-> "set", key |-> key, v |-> v, preData |-> data,
                threw |-> setCustomProperty(data, key, v).threw]
    /\ UNCHANGED <<botVars, hist, syncVars, loadedFields, removed, store, calls, nops,
                   supplied, prev, obs>>

NextOld ==
    \/ \E obj \in Objs \cup Docs, overwrite \in BOOLEAN : loadFromObjectOld(obj, overwrite)
    \/ \E key \in FieldSet : getProperty(key)
    \/ \E key \in FieldSet, v \in Vals : assignProperty(key, v)

SpecOld == InitOld /\ [][NextOld]_vars

\* ------------------------------------------------- the commands command
\* the wrapper is not exercised while the bot's handlers are
WrapperIdle ==
    /\ loadedFields = Arr(<<>>)
    /\ data = EmptyObj
    /\ removed = FALSE
    /\ store = <<>>
    /\ calls = [k \in Slots |-> Idle]
    /\ sync = NoSync
    /\ nops = 0
    /\ supplied = {}
    /\ prev = NoPrev
    /\ synchronizer = 0
    /\ syncs = <<>>
    /\ syncRet = NoSyncRet
    /\ obs = NoObs
    /\ hist = FALSE
wrapperVars == <<loadedFields, data, removed, store, calls, sync, nops, supplied, prev,
                obs, hist, syncVars>>

\* invocation i ended with the reply text and the return value ret
Ended(i, rec, reply, ret) ==
    [runs EXCEPT ![i] = [rec EXCEPT !.pc = "done", !.reply = reply, !.ret = ret]]

\* command.run for `enable <arg>` / `disable <arg>` up to its first await
\* (lines 58-75 and 93-110)
run(i, op, arg) ==
    LET cmd == toLowerCase(arg)
        rec == [NoRun EXCEPT !.op = op, !.cmd = cmd]
    IN /\ runs[i].pc \in {"idle", "done"}
       /\ runs' = IF arg = "" THEN Ended(i, rec, "Please input a command", "false")
                  ELSE IF cmd \notin Registered
                  THEN Ended(i, rec, "That isn't a command.", "false")
                  ELSE IF ~togglable[cmd]
                  THEN Ended(i, rec, "isn't togglable", "false")
                  ELSE [runs EXCEPT ![i] = [rec EXCEPT !.pc = "find"]]
       /\ UNCHANGED <<commandSettings, megalogDoc, handler, wrapperVars>>

\* Bot.database.findCommandsDoc and getCommandSettings resolve (lines 76-77
\* and 112-113) with what is stored for the command
getCommandSettings(i) ==
    /\ runs[i].pc = "find"
    /\ runs' = [runs EXCEPT ![i].pc = "got",
                            ![i].commandSettings = commandSettings[runs[i].cmd]]
    /\ UNCHANGED <<commandSettings, megalogDoc, handler, wrapperVars>>

\* Bot.database.setCommandSettings(guild, name, settings, doc): the settings
\* are stored for the command
setCommandSettings(stored, name, settings) == [stored EXCEPT ![name] = settings]

\* a handler that stores the settings whatever it read
runResume_AlwaysWrites(i) ==
    LET rec == runs[i]
        e == IF rec.op = "enable" THEN "true" ELSE "false"
    IN /\ rec.pc = "got"
       /\ commandSettings' = setCommandSettings(commandSettings, rec.cmd, Settings(e))
       /\ runs' = Ended(i, rec, "Succesfully", "undefined")
       /\ UNCHANGED <<megalogDoc, handler, wrapperVars>>

\* command.run after its awaits: lines 78-91 for enable, 114-130 for disable
runResume(i) ==
    LET rec == runs[i]
        got == rec.commandSettings
        already == IF rec.op = "enable"
                   THEN ~got.def \/ got._enabled = "true"
                   ELSE got._enabled = "false"
        e == IF rec.op = "enable" THEN "true" ELSE "false"
    IN /\ rec.pc = "got"
       /\ IF already
          THEN /\ runs' = Ended(i, rec, "already", "false")
               /\ UNCHANGED commandSettings
          ELSE /\ commandSettings' = setCommandSettings(commandSettings, rec.cmd, Settings(e))
               /\ runs' = Ended(i, rec, "Succesfully", "undefined")
       /\ UNCHANGED <<megalogDoc, handler, wrapperVars>>

InitCommands ==
    /\ WrapperIdle
    /\ commandSettings \in [CmdNames -> StoredSettings]
    /\ runs = [i \in Runs |-> NoRun]
    /\ megalogDoc = NoMegalogDoc
    /\ handler = NoHandler

NextCommands ==
    \/ \E i \in Runs, op \in {"enable", "disable"}, arg \in Args : run(i, op, arg)
    \/ \E i \in Runs : getCommandSettings(i)
    \/ \E i \in Runs : runResume(i)

SpecCommands == InitCommands /\ [][NextCommands]_vars

\* ---------------------------------------------------- the megalogger
\* megalogDoc.ignoreChannels && megalogDoc.ignoreChannels.includes(id), with
\* the check left out
Ignored_Never(doc, id) == FALSE

\* megalogDoc.ignoreChannels && megalogDoc.ignoreChannels.includes(id)
Ignored(doc, id) == doc.ignoreChannels.def /\ Includes(doc.ignoreChannels.v, id)

\* the setting the handler of the event consults for its log channel
LogSetting(ev) ==
    CASE ev.fn = "logChannelToggle" -> IF ev.flag THEN "channelCreate" ELSE "channelDelete"
      [] ev.fn = "logChannelUpdate" -> "channelUpdate"
      [] ev.fn \in {"logMessageDelete", "logMessageBulkDelete"} -> "messageDelete"
      [] ev.fn = "cacheAttachment" -> "attachmentCache"
      [] ev.fn = "logMessageEdit" -> "messageEdit"
      [] ev.fn = "logReactionToggle" -> IF ev.flag THEN "reactionAdd" ELSE "reactionRemove"
      [] OTHER -> "reactionRemove"

\* the returns a handler takes before it awaits anything: a DM channel, a
\* message without attachments to cache, an edit that left the content as it
\* was
ReturnsAtOnce(ev) ==
    \/ ev.fn \notin {"logChannelToggle", "logChannelUpdate"} /\ ev.ch = "dm"
    \/ ev.fn = "cacheAttachment" /\ ~ev.atts[1]
    \/ ev.fn = "logMessageEdit" /\ ev.changed = {}

\* the delete handlers without their look at the message's own channel
OwnLog_Never(ev, doc) ==
    ev.fn = "logMessageEdit" /\ doc.messageDelete = ev.ch /\ ev.flag

\* the event is about a megalog message itself: a deletion in the
\* messageDelete channel (lines 455 and 536), an edit of the bot's own message
\* there (line 668)
OwnLog(ev, doc) ==
    \/ ev.fn \in {"logMessageDelete", "logMessageBulkDelete"} /\ ev.ch = doc.messageDelete
    \/ ev.fn = "logMessageEdit" /\ doc.messageDelete = ev.ch /\ ev.flag

\* the returns a handler takes once findMegalogDoc resolved with doc: no
\* document, an ignored channel, the setting not set, a megalog message, and
\* a log channel that is not a text channel of the guild
Skips(ev, doc) ==
    \/ ~doc.found
    \/ Ignored(doc, ev.ch)
    \/ doc[LogSetting(ev)] = ""
    \/ OwnLog(ev, doc)
    \/ doc[LogSetting(ev)] \notin GuildChannels

\* getAttachmentCache(message, cacheChannelID) (lines 605-612): undefined
\* unless the cache channel is a text channel of the guild and holds a tagged
\* message with attachments (hit)
getAttachmentCache(cacheChannelID, hit) ==
    IF cacheChannelID \notin GuildChannels THEN "undefined"
    ELSE IF hit THEN "attachments" ELSE "undefined"

\* logChannel.send(...) of the log named what, and the statistics recorded
\* after it
Sent(h, doc, what) ==
    [h EXCEPT !.sent = Append(@, [to |-> doc[LogSetting(h.ev)], what |-> what]),
              !.stats = Append(@, "messageSend")]
Logged(h, type) == [h EXCEPT !.pc = "done", !.stats = Append(@, type)]

\* logChannelUpdate's sends (lines 67-196): one for a changed name, one for a
\* changed topic, one for changed permissions
RECURSIVE SentChanges(_, _, _)
SentChanges(h, doc, kinds) ==
    IF kinds = <<>> THEN h
    ELSE SentChanges(IF Head(kinds) \in h.ev.changed THEN Sent(h, doc, Head(kinds)) ELSE h,
                     doc, Tail(kinds))

\* the lines logMessageBulkDelete adds for a message with attachments (lines
\* 549-557): `if (cachedAttachments || cachedAttachments.size)` reads .size of
\* undefined when nothing was cached
bulkAttachments(cached) ==
    IF cached # "undefined" THEN [threw |-> FALSE, line |-> "urls"]
    ELSE [threw |-> TRUE, line |-> ""]

\* the event reaches its handler, which runs up to its first await
handle(ev) ==
    /\ handler.pc \in {"idle", "done"}
    /\ handler' = [NoHandler EXCEPT !.ev = ev,
                                    !.pc = IF ReturnsAtOnce(ev) THEN "done" ELSE "find"]
    /\ UNCHANGED <<commandSettings, runs, megalogDoc, wrapperVars>>

\* Bot.database.findMegalogDoc resolves and the handler runs on: to its end,
\* or to its first await of getAttachmentCache
findMegalogDoc ==
    LET ev == handler.ev
        doc == megalogDoc
        type == LogSetting(ev)
    IN /\ handler.pc = "find"
       /\ handler' =
            IF Skips(ev, doc) THEN [handler EXCEPT !.pc = "done"]
            ELSE CASE ev.fn = "logChannelUpdate"
                        -> Logged(SentChanges(handler, doc, <<"name", "topic", "perm">>), type)
                   [] ev.fn = "logMessageDelete" /\ ev.atts[1]
                        -> [handler EXCEPT !.pc = "cache"]
                   [] ev.fn = "logMessageBulkDelete"
                        -> [handler EXCEPT !.pc = "loop", !.i = 1]
                   [] ev.fn = "cacheAttachment"
                        -> Logged(Sent(handler, doc, IF ev.flag THEN "too large" ELSE "cache"),
                                  type)
                   [] OTHER -> Logged(Sent(handler, doc, type), type)
       /\ UNCHANGED <<commandSettings, runs, megalogDoc, wrapperVars>>

\* logMessageDelete after its getAttachmentCache (lines 498-515)
deleteCached(hit) ==
    LET cached == getAttachmentCache(megalogDoc.attachmentCache, hit)
        line == IF cached # "undefined" THEN "urls" ELSE "Couldn't find"
        h == [handler EXCEPT !.cached = <<cached>>, !.humanLog = <<line>>]
    IN /\ handler.pc = "cache"
       /\ handler' = Logged(Sent(h, megalogDoc, "messageDelete"), "messageDelete")
       /\ UNCHANGED <<commandSettings, runs, megalogDoc, wrapperVars>>

\* logMessageBulkDelete's loop (lines 545-559) for the message at i, and its
\* send after the last one (lines 560-590)
bulkMessage(hit) ==
    LET ev == handler.ev
        cached == getAttachmentCache(megalogDoc.attachmentCache, hit)
        att == bulkAttachments(cached)
    IN /\ handler.pc = "loop"
       /\ handler' =
            IF handler.i > Len(ev.atts)
            THEN Logged(Sent(handler, megalogDoc, "messageDelete"), "messageDelete")
            ELSE IF ~ev.atts[handler.i]
            THEN [handler EXCEPT !.i = @ + 1, !.humanLog = Append(@, "content"),
                                 !.cached = Append(@, "none")]
            ELSE IF att.threw
            THEN [handler EXCEPT !.pc = "done", !.threw = TRUE,
                                 !.cached = Append(@, cached)]
            ELSE [handler EXCEPT !.i = @ + 1, !.humanLog = Append(@, att.line),
                                 !.cached = Append(@, cached)]
       /\ UNCHANGED <<commandSettings, runs, megalogDoc, wrapperVars>>

InitMegalog ==
    /\ WrapperIdle
    /\ commandSettings = [n \in CmdNames |-> NoSettings]
    /\ runs = [i \in Runs |-> NoRun]
    /\ megalogDoc \in MegalogDocs \cup {NoMegalogDoc}
    /\ handler = NoHandler

NextMegalog ==
    \/ \E ev \in Events : handle(ev)
    \/ findMegalogDoc
    \/ \E hit \in BOOLEAN : deleteCached(hit)
    \/ \E hit \in BOOLEAN : bulkMessage(hit)

SpecMegalog == InitMegalog /\ [][NextMegalog]_vars

\* ================================================================ claims
\* the fields isLoaded reports loaded under the loaded-field record lf
LoadedSet(lf) == {f \in FieldSet : isLoaded(lf, f)}
\* the fields a load call asked for: its list, or every field
Requested(rec) == IF rec.fields.def THEN ToSet(rec.fields.v) ELSE FieldSet
\* call c just returned: no wrapper step has run since
Returned(c, op) == calls[c].op = op /\ calls[c].pc = "done"

\* C1: after a successful load of a field subset that ran alone, the fields
\* reported loaded are the previously loaded ones plus the requested ones,
\* and the record is the fully-loaded sentinel only if these are all fields
C1_LoadedIsUnion ==
    \A c \in Slots :
        (/\ Returned(c, "load")
         /\ calls[c].doc.found
         /\ calls[c].fields.def
         /\ ~calls[c].overlap)
        => /\ LoadedSet(loadedFields)
                = LoadedSet(calls[c].preLoaded) \cup Requested(calls[c])
           /\ (~loadedFields.def
                => LoadedSet(calls[c].preLoaded) \cup Requested(calls[c]) = FieldSet)

\* C2: in every reachable state isLoaded() without a field is true exactly
\* when the loaded fields are all of allFields
C2_IsLoadedIffAll ==
    isLoaded(loadedFields, "") <=> (LoadedSet(loadedFields) = FieldSet)

\* C3: in every reachable state every field reported loaded has had its value
\* supplied by the constructor's object, a completed merge or loadFromObject
C3_LoadedWasSupplied ==
    \A f \in FieldSet : isLoaded(loadedFields, f) => f \in supplied

\* C4: a load that ran alone and found no record returns undefined and leaves
\* the loaded-field record as it was before the call
C4_NotFoundKeepsLoadedFields ==
    \A c \in Slots :
        (/\ Returned(c, "load")
         /\ ~calls[c].doc.found
         /\ calls[c].reads = 1
         /\ ~calls[c].overlap)
        => /\ calls[c].ret.kind = "undefined"
           /\ loadedFields = calls[c].preLoaded

\* C5: a load without reload that follows a load of the same, then unloaded,
\* fields which found no record issues a fetch again
C5_RetryAfterNotFound ==
    \A c \in Slots :
        (/\ calls[c].op = "load"
         /\ ~calls[c].reload
         /\ ~calls[c].overlap
         /\ calls[c].prev.op = "load"
         /\ ~calls[c].prev.overlap
         /\ calls[c].prev.reads = 1
         /\ ~calls[c].prev.found
         /\ ~calls[c].prev.reload
         /\ calls[c].prev.fields = calls[c].fields)
        => calls[c].reads = 1

\* C6: a load without reload whose requested fields are all loaded returns
\* the empty list and issues no storage request; of two load() calls in
\* sequence on a partially loaded wrapper whose record exists, the first
\* issues one fetch and the second none
C6_LoadedFieldsNeedNoFetch ==
    \A c \in Slots :
        (calls[c].op = "load" /\ ~calls[c].reload)
        => /\ (\A f \in Requested(calls[c]) : isLoaded(calls[c].preLoaded, f))
                => /\ calls[c].pc = "done"
                   /\ calls[c].ret = [kind |-> "list", v |-> <<>>]
                   /\ calls[c].reads = 0 /\ calls[c].deletes = 0
                   /\ calls[c].inserts = 0
           /\ (/\ ~calls[c].fields.def
               /\ \E f \in FieldSet : ~isLoaded(calls[c].preLoaded, f))
                => calls[c].reads = 1
           /\ (/\ ~calls[c].fields.def
               /\ calls[c].prev.op = "load"
               /\ ~calls[c].prev.fields.def
               /\ ~calls[c].prev.reload
               /\ calls[c].prev.found)
                => /\ calls[c].reads = 0
                   /\ calls[c].ret = [kind |-> "list", v |-> <<>>]

C6_Witness ==
    \E c \in Slots :
        /\ Returned(c, "load")
        /\ ~calls[c].fields.def /\ ~calls[c].reload
        /\ calls[c].reads = 0
        /\ calls[c].prev.op = "load" /\ ~calls[c].prev.fields.def
        /\ calls[c].prev.found /\ calls[c].prev.reads = 1
        /\ calls[c].prev.ret.v = <<"age", "role">>

C9_CreateRoundTrip ==
    \A c \in Slots :
        (/\ Returned(c, "createDoc")
         /\ calls[c].ret.kind = "doc"
         /\ ~calls[c].overlap)
        => /\ \A f \in FieldSet :
                  dataGetter(loadedFields, data, f)
                      = [val |-> calls[c].content[f], warn |-> FALSE]
           /\ isLoaded(loadedFields, "")

C9_Witness ==
    \E c \in Slots :
        /\ Returned(c, "createDoc")
        /\ calls[c].ret.kind = "doc"
        /\ ~calls[c].overlap
        /\ calls[c].preLoaded = Arr(<<"name">>)
        /\ calls[c].deletes = 1

\* C10: after loadFromObject(obj) returns, isLoaded() is true and the
\* snapshot value of every field of allFields is obj's
C10_LoadFromObjectReplaces ==
    sync.op = "loadFromObject"
        => /\ isLoaded(loadedFields, "")
           /\ \A f \in FieldSet : data[f] = sync.obj[f]

C10_Witness ==
    /\ sync.op = "loadFromObject"
    /\ isLoaded(sync.preLoaded, "name")
    /\ sync.preData["name"] \in Vals
    /\ sync.preData["name"] # sync.obj["name"]
    /\ sync.preData["role"] \in Vals
    /\ sync.obj["role"] = 0

\* createDoc call c has applied loadFromObject(content): it issues its insert
\* in the step it applies it in (lines 225-226)
Applied(c) == calls[c].op = "createDoc" /\ calls[c].inserts = 1
\* the insert of createDoc call c has been executed by the storage engine
Written(c) == calls[c].pc = "saved" \/ calls[c].ret.kind = "doc"

C12_RefusedCreateIsNoOp ==
    [][\A c \in Slots :
          /\ (/\ calls'[c].op = "createDoc" /\ calls'[c].pc = "probe"
              /\ calls[c].pc # "probe")
                => UNCHANGED <<loadedFields, data, store>>
          /\ (/\ calls[c].op = "createDoc" /\ calls[c].pc = "probe"
              /\ calls'[c].pc = "probed")
                => UNCHANGED <<loadedFields, data, store>>
          /\ (/\ calls[c].op = "createDoc" /\ calls[c].pc = "probed"
              /\ ~calls[c].overwrite /\ calls[c].doc.found
              /\ calls'[c].pc # "probed")
                => /\ calls'[c].pc = "done"
                   /\ calls'[c].ret = [kind |-> "undefined", v |-> <<>>]
                   /\ calls'[c].deletes = 0 /\ calls'[c].inserts = 0
                   /\ UNCHANGED <<loadedFields, data, store>>]_vars

C12_Witness ==
    \E c \in Slots :
        /\ Returned(c, "createDoc")
        /\ ~calls[c].overwrite /\ calls[c].doc.found
        /\ calls[c].ret.kind = "undefined"
        /\ calls[c].deletes = 0 /\ calls[c].inserts = 0
        /\ ~calls[c].overlap
        /\ calls[c].preLoaded = Arr(<<"name">>)
        /\ loadedFields = calls[c].preLoaded
        /\ Len(store) = 1

\* C13: a createDoc(content, overwrite=true) that finds a record issues the
\* delete and nothing else; it issues its insert only once that delete has
\* been executed; and when the delete fails the call ends by throwing, with no
\* insert issued and the loaded-field record, the snapshot and the collection
\* as they were
C13_FailedDeleteAbortsCreate ==
    [][\A c \in Slots :
          /\ (/\ calls[c].op = "createDoc" /\ calls[c].pc = "probed"
              /\ calls[c].overwrite /\ calls[c].doc.found
              /\ calls'[c].pc # "probed")
                => /\ calls'[c].pc = "delete"
                   /\ calls'[c].deletes = 1 /\ calls'[c].inserts = 0
                   /\ UNCHANGED <<loadedFields, data, store>>
          /\ (/\ calls[c].op = "createDoc" /\ calls[c].doc.found
              /\ calls[c].inserts = 0
              /\ calls'[c].op = "createDoc" /\ calls'[c].inserts = 1)
                => /\ calls[c].pc = "deleted"
                   /\ calls[c].deletes = 1
          /\ (/\ calls[c].op = "createDoc" /\ calls[c].pc = "delete"
              /\ calls'[c].pc \notin {"delete", "deleted"})
                => /\ calls'[c].pc = "done"
                   /\ calls'[c].ret = [kind |-> "throw", v |-> <<>>]
                   /\ calls'[c].inserts = 0
                   /\ UNCHANGED <<loadedFields, data, store>>]_vars

C13_Witness ==
    \E c \in Slots :
        /\ Returned(c, "createDoc")
        /\ calls[c].overwrite /\ calls[c].doc.found
        /\ calls[c].ret.kind = "throw"
        /\ calls[c].deletes = 1 /\ calls[c].inserts = 0
        /\ ~calls[c].overlap
        /\ calls[c].preLoaded = Arr(<<"name">>)
        /\ loadedFields = calls[c].preLoaded
        /\ Len(store) = 1

\* C14: a resync call returns the wrapper itself exactly when its fetch found
\* the record, and undefined exactly when it did not, in every wrapper state
C14_ResyncReturnsThisIffFound ==
    \A c \in Slots :
        Returned(c, "resync")
        => /\ calls[c].doc.found => calls[c].ret.kind = "this"
           /\ ~calls[c].doc.found => calls[c].ret.kind = "undefined"

\* C15: from the step that starts it on, a remove() call has removed = TRUE
\* and one delete issued, while the delete is pending and after it failed;
\* the delete is executed at most once, and the call ends with the delete's
\* result when it was executed and with its error when it failed
C15_RemoveSetsFlagAndDeletesOnce ==
    /\ [](\A c \in Slots :
            calls[c].op = "remove"
            => /\ removed
               /\ calls[c].deletes = 1
               /\ calls[c].reads = 0 /\ calls[c].inserts = 0)
    /\ [][\A c \in Slots :
            /\ (/\ calls'[c].op = "remove" /\ calls'[c].pc = "delete"
                /\ calls[c].pc # "delete")
                  => /\ removed'
                     /\ UNCHANGED store
            /\ (/\ calls[c].op = "remove" /\ calls[c].pc = "deleted")
                  => \/ calls'[c].pc = "deleted"
                     \/ /\ calls'[c].pc = "done"
                        /\ calls'[c].ret = [kind |-> "deleted", v |-> <<>>]
                        /\ UNCHANGED store
            /\ (/\ calls[c].op = "remove" /\ calls[c].pc = "delete"
                /\ calls'[c].pc \notin {"delete", "deleted"})
                  => /\ calls'[c].pc = "done"
                     /\ calls'[c].ret = [kind |-> "throw", v |-> <<>>]
                     /\ UNCHANGED store]_vars

C15_Witness ==
    \E c \in Slots :
        /\ Returned(c, "remove")
        /\ calls[c].ret.kind = "throw"
        /\ removed
        /\ calls[c].deletes = 1
        /\ Len(store) = 1

\* two optional field lists that are both given and hold the same fields
SameSet(a, b) == a.def /\ b.def /\ ToSet(a.v) = ToSet(b.v)
\* the synchronizers that were created and never closed
Active == {i \in DOMAIN syncs : syncs[i].closed = 0}

\* C16: an enableSync called while a synchronizer is attached whose
\* syncedFields hold the same fields as the requested list, in any order,
\* returns that synchronizer, creates none and leaves it attached
C16_EnableSyncIdempotent ==
    (/\ syncRet.op = "enableSync"
     /\ syncRet.pre # 0
     /\ SameSet(syncs[syncRet.pre].syncedFields, syncRet.fields))
    => /\ syncRet.ret = syncRet.pre
       /\ ~syncRet.created
       /\ synchronizer = syncRet.pre

C16_Witness ==
    /\ syncRet.op = "enableSync"
    /\ syncRet.pre # 0
    /\ syncs[syncRet.pre].syncedFields = Arr(<<"age", "role">>)
    /\ syncRet.fields = Arr(<<"role", "age">>)
    /\ syncRet.ret = syncRet.pre
    /\ Len(syncs) = 1

\* C17: in every state reached by enableSync and disableSync calls at most
\* one synchronizer the wrapper created is active (created and not closed)
C17_AtMostOneActive == Cardinality(Active) <= 1

\* C18: disableSync closes the attached synchronizer once and detaches it,
\* and does nothing when none is attached; an enableSync that follows a
\* disableSync with the fields the detached synchronizer was created with
\* creates a new synchronizer, attaches and returns it
C18_DisableThenEnableCreates ==
    /\ syncRet.op = "disableSync"
        => /\ synchronizer = 0
           /\ syncRet.pre # 0
                => syncs[syncRet.pre].closed = 1 /\ syncRet.closed = 1
           /\ syncRet.pre = 0 => syncRet.closed = 0
    /\ (/\ syncRet.op = "enableSync"
        /\ syncRet.pre = 0
        /\ \E i \in DOMAIN syncs :
              syncs[i].closed > 0 /\ syncs[i].fields = syncRet.fields)
        => /\ syncRet.created
           /\ synchronizer # 0
           /\ syncRet.ret = synchronizer

\* C19: a wrapper on which nothing was called yet has as loadedFields the
\* keys of the constructor's object and has issued no storage request; in
\* every state isLoaded(f) is true exactly when the sentinel is set or f is in
\* the loaded-field record, and isLoaded() is false when the record is a list
C19_ConstructedAndIsLoaded ==
    /\ nops = 0
        => /\ loadedFields.def
           /\ ToSet(loadedFields.v) = {f \in FieldSet : data[f] # 0}
           /\ \A c \in Slots : calls[c] = Idle
    /\ \A f \in FieldSet :
          isLoaded(loadedFields, f)
              <=> (~loadedFields.def \/ f \in ToSet(loadedFields.v))
    /\ loadedFields.def => ~isLoaded(loadedFields, "")
    /\ ~loadedFields.def => isLoaded(loadedFields, "")

C19_Witness ==
    /\ nops = 0
    /\ loadedFields = Arr(<<"name">>)
    /\ isLoaded(loadedFields, "name")
    /\ ~isLoaded(loadedFields, "age")
    /\ ~isLoaded(loadedFields, "")
    /\ Len(store) = 1

\* C20: reading a field that is not loaded through its getter warns and
\* yields undefined; reading a loaded field yields the snapshot's value for
\* it and does not warn
C20_GetterWarnsWhenNotLoaded ==
    \A f \in FieldSet :
        dataGetter(loadedFields, data, f)
            = IF ~loadedFields.def \/ f \in ToSet(loadedFields.v)
              THEN [val |-> data[f], warn |-> FALSE]
              ELSE [val |-> 0, warn |-> TRUE]

C20_Witness ==
    /\ loadedFields = Arr(<<"name">>)
    /\ data["name"] \in Vals
    /\ dataGetter(loadedFields, data, "name") = [val |-> data["name"], warn |-> FALSE]
    /\ dataGetter(loadedFields, data, "age") = [val |-> 0, warn |-> TRUE]

\* C21: in every state reached by load and resync calls, also from untyped
\* callers, the loaded-field record is the sentinel or holds only members of
\* allFields
C21_LoadedSubsetOfAllFields ==
    loadedFields.def => ToSet(loadedFields.v) \subseteq FieldSet

\* load call c completed second of two load calls that were in flight at the
\* same time and were the only calls made on the wrapper: the other one is
\* the load that completed right before it
PairDone(c) ==
    /\ Returned(c, "load")
    /\ nops = 2
    /\ calls[c].overlap
    /\ calls[c].last.op = "load"
    /\ calls[c].last.overlap
\* the fields loaded before the two calls of PairDone(c) were issued: what was
\* loaded when the earlier of the two started
LoadedBefore(c) ==
    LoadedSet(calls[c].preLoaded) \cap LoadedSet(calls[c].last.preLoaded)
\* the fields the two calls of PairDone(c) asked for
RequestedByPair(c) ==
    Requested(calls[c]) \cup Requested(calls[c].last)

\* C22: once two load calls without reload, issued without awaiting between
\* them against a record that exists and does not change, have both
\* completed, the fields reported loaded are the ones loaded before plus the
\* requested ones, and every requested field has the stored value
C22_ConcurrentLoadsKeepBookkeeping ==
    \A c \in Slots :
        (/\ PairDone(c)
         /\ ~calls[c].reload /\ ~calls[c].last.reload
         /\ calls[c].ret.kind = "list" /\ calls[c].last.ret.kind = "list"
         /\ Len(store) = 1)
        => /\ LoadedSet(loadedFields) = LoadedBefore(c) \cup RequestedByPair(c)
           /\ \A f \in RequestedByPair(c) : data[f] = Head(store)[f]

\* load call c reloaded the single field f and completed right after
\* another reload of f that was in flight at the same time
ReloadPairDone(c, f) ==
    /\ Returned(c, "load")
    /\ calls[c].reload /\ calls[c].fields = Arr(<<f>>)
    /\ calls[c].overlap /\ calls[c].doc.found
    /\ calls[c].last.op = "load"
    /\ calls[c].last.reload /\ calls[c].last.fields = Arr(<<f>>)
    /\ calls[c].last.overlap /\ calls[c].last.found

\* C23: when two reloads of the same field were in flight at the same time
\* and both found the record, the snapshot value of the field after the
\* second completion is the value the fetch that completed last returned
C23_MergesInCompletionOrder ==
    \A c \in Slots, f \in FieldSet :
        ReloadPairDone(c, f) => data[f] = calls[c].doc.d[f]

\* the call that completed last was issued first (nothing was loaded when it
\* started, the other one started after it), and its fetch returned a value
\* older than the one the other call merged and storage now holds
C23_Witness ==
    \E c \in Slots :
        /\ ReloadPairDone(c, "name")
        /\ calls[c].preLoaded = Arr(<<>>)
        /\ calls[c].last.preLoaded = Undefined
        /\ calls[c].doc.d["name"] = 1
        /\ calls[c].last.d["name"] = 2
        /\ Head(store)["name"] = 2
        /\ data["name"] = 1

\* the state of a call whose pending request the storage engine executed
Executed(pc) ==
    CASE pc = "fetch" -> "fetched"
      [] pc = "probe" -> "probed"
      [] pc = "delete" -> "deleted"
      [] pc = "save" -> "saved"
      [] OTHER -> pc

\* C24: a call whose pending storage request fails ends by throwing to its
\* caller, with no further request issued and the collection untouched; and
\* no call ever issues its fetch, its delete or its insert more than once
C24_StorageFailurePropagates ==
    /\ [](\A c \in Slots :
            /\ calls[c].reads <= 1
            /\ calls[c].deletes <= 1
            /\ calls[c].inserts <= 1)
    /\ [][\A c \in Slots :
            (/\ calls[c].pc \in {"fetch", "probe", "delete", "save"}
             /\ calls'[c].pc \notin {calls[c].pc, Executed(calls[c].pc)})
            => /\ calls'[c].pc = "done"
               /\ calls'[c].ret = [kind |-> "throw", v |-> <<>>]
               /\ calls'[c].reads = calls[c].reads
               /\ calls'[c].deletes = calls[c].deletes
               /\ calls'[c].inserts = calls[c].inserts
               /\ UNCHANGED store]_vars

C24_Witness ==
    \E c \in Slots :
        /\ Returned(c, "createDoc")
        /\ calls[c].ret.kind = "throw"
        /\ calls[c].reads = 1
        /\ calls[c].deletes = 0 /\ calls[c].inserts = 0
        /\ ~calls[c].doc.found
        /\ Len(store) = 1

\* C28: when the fetch of a load that ran alone fails, the loaded-field
\* record is what it was before the call; and a load without reload that
\* follows such a failed load of the same fields issues a fetch again
C28_FailedFetchKeepsState ==
    \A c \in Slots :
        /\ (/\ Returned(c, "load")
            /\ calls[c].ret.kind = "throw"
            /\ ~calls[c].overlap)
            => loadedFields = calls[c].preLoaded
        /\ (/\ calls[c].op = "load"
            /\ ~calls[c].reload
            /\ ~calls[c].overlap
            /\ calls[c].prev.op = "load"
            /\ calls[c].prev.ret.kind = "throw"
            /\ ~calls[c].prev.overlap
            /\ ~calls[c].prev.reload
            /\ calls[c].prev.fields = calls[c].fields)
            => calls[c].reads = 1

\* the step is the merge of call c: load's continuation after a fetch that
\* found the record
MergeStep(c) ==
    calls[c].pc = "fetched" /\ calls[c].doc.found /\ calls'[c].pc = "done"
\* the fields the merge of call rec is given: the fetch projection
Projection(rec) ==
    IF rec.loadFields.def THEN ToSet(rec.loadFields.v) ELSE FieldSet

\* C25: after a merge, the subscriber of subToField(f) is invoked exactly
\* when the value of f in the new snapshot differs from its value in the
\* snapshot before; a merge of other fields only, or one that rewrites f with
\* an equal value, does not invoke it
C25_FieldSubscriptionDistinct ==
    [][\A c \in Slots :
        MergeStep(c) =>
            /\ obs'.field <=> (data'[SubField] # data[SubField])
            /\ SubField \notin Projection(calls[c]) => ~obs'.field]_vars
\* a reload that fetched f and merged it just returned, the plain subscriber
\* got the snapshot, and the subscriber of f was not invoked
C25_Witness ==
    \E c \in Slots :
        /\ Returned(c, "load")
        /\ calls[c].ret.kind = "list"
        /\ SubField \in ToSet(calls[c].ret.v)
        /\ calls[c].doc.d[SubField] # 0
        /\ obs.plain = <<data>>
        /\ ~obs.field

\* C26: every merge and every loadFromObject hands the new snapshot to each
\* plain subscriber exactly once, within the step that applies it, whether or
\* not a value changed; the snapshot never changes without that, and a
\* subscriber is never handed more than one snapshot, or an older one, at once
C26_OneNotificationPerSet ==
    /\ [](obs.plain \in {<<>>, <<data>>})
    /\ [][/\ \A c \in Slots : MergeStep(c) => obs'.plain = <<data'>>
          /\ (sync'.op = "loadFromObject" /\ nops' = nops + 1)
                => obs'.plain = <<data'>>
          /\ (\E c \in Slots : calls[c].inserts = 0 /\ calls'[c].inserts = 1)
                => obs'.plain = <<data'>>
          /\ data' # data => obs'.plain = <<data'>>]_vars
\* the second of two merges, issued after the first one completed, just
\* returned and its snapshot was handed over
C26_Witness ==
    \E c \in Slots :
        /\ Returned(c, "load")
        /\ calls[c].doc.found
        /\ calls[c].prev.op = "load"
        /\ calls[c].prev.found
        /\ obs.plain = <<data>>

\* C30: the merge of a successful load leaves the snapshot value of every
\* field outside the fetch projection as it was, and the snapshot object the
\* subscribers were handed before is not written to
C30_MergeFrame ==
    [][\A c \in Slots :
        MergeStep(c) =>
            /\ \A f \in FieldSet \ Projection(calls[c]) : data'[f] = data[f]
            /\ obs'.intact]_vars
\* a load of a field subset just merged while a field outside its projection
\* holds a value in the snapshot that the fetched document does not carry
C30_Witness ==
    \E c \in Slots :
        /\ Returned(c, "load")
        /\ calls[c].doc.found
        /\ calls[c].loadFields.def
        /\ obs.plain = <<data>>
        /\ obs.intact
        /\ \E f \in FieldSet \ ToSet(calls[c].loadFields.v) :
                data[f] # 0 /\ calls[c].doc.d[f] # data[f]

\* C27: whenever a load call has just resolved with a list, every field it
\* asked for has been supplied to the snapshot by a fetch or by content
C27_ResolvedLoadHasMerged ==
    \A c \in Slots :
        (Returned(c, "load") /\ calls[c].ret.kind = "list")
            => Requested(calls[c]) \subseteq supplied

\* C29: when two createDoc(content, overwrite=false) calls that both found no
\* record have both had their insert executed, the collection still holds at
\* most one record: at most one of them inserts
C29_AtMostOneInsert ==
    \A c, k \in Slots :
        (/\ c # k
         /\ calls[c].op = "createDoc" /\ ~calls[c].overwrite /\ Written(c)
         /\ calls[k].op = "createDoc" /\ ~calls[k].overwrite /\ Written(k))
            => Len(store) <= 1

\* C31: whenever subscribers are handed a snapshot, isLoaded(f), answered
\* from the loaded-field record as it is during the notification, is true for
\* every field the snapshot has a value for
C31_NotifiedFieldsLoaded ==
    obs.plain # <<>>
        => \A f \in FieldSet : obs.plain[1][f] # 0 => isLoaded(obs.seen, f)

\* C32: after enableSync(fields) returned, a synchronizer is attached, it is
\* the returned value, and for a given list its syncedFields hold the
\* requested fields
C32_EnableSyncAttaches ==
    syncRet.op = "enableSync"
        => /\ synchronizer # 0
           /\ syncRet.ret = synchronizer
           /\ syncRet.fields.def
                => SameSet(syncs[synchronizer].syncedFields, syncRet.fields)

\* C33: removed is false on construction, and no step sets it back to false
\* once it is true, a createDoc that re-creates the record included
C33_RemovedMonotonic ==
    /\ ~removed
    /\ [][removed => removed']_vars
\* a createDoc issued after remove has just returned the saved document, the
\* record exists again, and removed is still set
C33_Witness ==
    \E c \in Slots :
        /\ Returned(c, "createDoc")
        /\ calls[c].ret.kind = "doc"
        /\ Len(store) > 0
        /\ removed

\* C34: no step of a remove call (the call itself, the delete it requested,
\* its completion) changes the loaded-field record, the snapshot, the
\* attached synchronizer or any synchronizer's state
C34_RemoveFrame ==
    [][\A c \in Slots :
        (calls'[c].op = "remove" /\ calls'[c].pc # calls[c].pc)
            => UNCHANGED <<loadedFields, data, synchronizer, syncs>>]_vars
\* remove has just returned with a synchronizer attached and open, and a
\* field loaded before is still reported loaded and read through its getter
C34_Witness ==
    \E c \in Slots :
        /\ Returned(c, "remove")
        /\ removed
        /\ synchronizer # 0
        /\ syncs[synchronizer].closed = 0
        /\ isLoaded(loadedFields, allFields[1])
        /\ ~isLoaded(loadedFields, allFields[2])
        /\ dataGetter(loadedFields, data, allFields[1]) = [val |-> 1, warn |-> FALSE]

\* C35: in the earlier wrapper, a read of a field's property has just
\* returned the snapshot's value of the field without a warning if the field
\* is loaded, and undefined with a warning if not; an assignment has just
\* thrown and left the snapshot as it was
C35_OldGetterAndSetter ==
    /\ sync.op = "get"
        => sync.got = IF isLoaded(loadedFields, sync.key)
                      THEN [warn |-> FALSE, ret |-> RetScalar(data[sync.key])]
                      ELSE [warn |-> TRUE, ret |-> RetUndefined]
    /\ sync.op = "set" => sync.threw /\ data = sync.preData

\* the step completes invocation i after it read the stored settings
Resumed(i) == runs[i].pc = "got" /\ runs'[i].pc = "done"

C37_NoLogOfOwnLogChannel ==
    (/\ handler.ev.fn \in {"logMessageDelete", "logMessageBulkDelete"}
     /\ megalogDoc.found
     /\ handler.ev.ch = megalogDoc.messageDelete)
        => handler.sent = <<>> /\ handler.stats = <<>>
\* a bulk deletion of messages with attachments in the log channel, which is
\* not ignored and exists, has been handled to its end: nothing was sent
C37_Witness ==
    /\ handler.pc = "done"
    /\ handler.ev.fn = "logMessageBulkDelete"
    /\ handler.ev.ch = "log"
    /\ handler.ev.atts[1]
    /\ megalogDoc.found
    /\ megalogDoc.messageDelete = "log"
    /\ ~megalogDoc.ignoreChannels.def
    /\ handler.sent = <<>>
    /\ ~handler.threw

\* C38: a handler given an event from a channel listed in ignoreChannels
\* sends nothing and records no statistic; the same when the guild has no
\* megalog document, and nothing is sent when the setting the handler
\* consults is not set
C38_IgnoredChannelsAreSilent ==
    /\ (/\ megalogDoc.found
        /\ megalogDoc.ignoreChannels.def
        /\ handler.ev.ch \in ToSet(megalogDoc.ignoreChannels.v))
            => handler.sent = <<>> /\ handler.stats = <<>>
    /\ ~megalogDoc.found => handler.sent = <<>> /\ handler.stats = <<>>
    /\ (megalogDoc.found /\ megalogDoc[LogSetting(handler.ev)] = "")
            => handler.sent = <<>> /\ handler.stats = <<>>
\* an edit that changed the content of a message in an ignored channel has
\* been handled to its end while the messageEdit log channel is set and
\* exists: nothing was sent
C38_Witness ==
    /\ handler.pc = "done"
    /\ handler.ev.fn = "logMessageEdit"
    /\ handler.ev.changed = {"content"}
    /\ handler.ev.ch = "c1"
    /\ megalogDoc.found
    /\ megalogDoc.ignoreChannels = [def |-> TRUE, v |-> <<"c1">>]
    /\ megalogDoc.messageEdit = "log"
    /\ handler.sent = <<>>

\* C39: a bulk deletion that met a message with attachments for which
\* getAttachmentCache returned nothing wrote '*No cache found*' for it, did
\* not fail, and went on to send the log
C39_BulkDeleteWithoutCache ==
    \A i \in DOMAIN handler.cached :
        (/\ handler.ev.fn = "logMessageBulkDelete"
         /\ handler.pc = "done"
         /\ handler.ev.atts[i]
         /\ handler.cached[i] = "undefined")
            => /\ ~handler.threw
               /\ Len(handler.sent) = 1
               /\ handler.humanLog[i] = "*No cache found*"

====
